---------------------------- MODULE Spec2Model ----------------------------
(***************************************************************************)
(* Model of the Eva Qi portfolio front end.                                *)
(*                                                                         *)
(*  - LoaderSpec / LoaderFairSpec: device-detector.js.  DeviceDetector is  *)
(*    built in the DOMContentLoaded handler, waits for THREE, appends the  *)
(*    application script, and the appended script runs its top-level code. *)
(*  - Spec and the fair specs: the zoom / overlay / role-typing / tutorial state   *)
(*    machine of the three renderer classes (main.js, the optimized        *)
(*    renderer, mobile-main.js), started in the state their constructor    *)
(*    leaves.                                                              *)
(*  - TouchSpec: the joystick / Click Me / pink-light touch handlers of    *)
(*    mobile-main.js.                                                      *)
(*  - InitSpec: init() of the three renderer classes, call by call.        *)
(*  - PairSpec: main.js and the optimized renderer given the same events.  *)
(*  - TimelineSpec: the scroll-driven cards of journey-timeline.js.        *)
(*                                                                         *)
(* Scales are JavaScript doubles in the source.  They are modelled in      *)
(* fixed point, ScaleUnit steps per 1.0, every arithmetic result rounded   *)
(* to the nearest step (the way a double rounds to the nearest             *)
(* representable value, at a coarser precision).                           *)
(***************************************************************************)
EXTENDS Integers, Sequences, FiniteSets

VARIABLES
    \* ---- page / device-detector.js ----
    readyState,        \* document.readyState: "loading" | "interactive"
    userAgent,         \* navigator.userAgent, by the token the regexes look for
    maxTouchPoints,    \* navigator.maxTouchPoints
    innerWidth,        \* window.innerWidth
    threeDefined,      \* typeof THREE !== 'undefined'
    detector,          \* window.deviceDetector (NoDetector before construction)
    threeWait,         \* position of waitForThreeJS
    scripts,           \* application <script> elements appended to document.head
    domListeners,      \* DOMContentLoaded listeners registered by the scripts
    constructed,       \* renderer classes whose constructor (and init) has run
    \* ---- renderer ----
    variant,           \* which renderer class this is
    isMobile,          \* this.isMobile
    targetScale,
    currentScale,
    overlayVisible,    \* this.overlayVisible
    overlayActive,     \* overlay.classList contains 'active'
    hasSeenIntro,
    hintShow,          \* timedHint.classList contains 'show'
    tutorialTimer,     \* the 5000 ms timer of startTutorial is pending
    startTimers,       \* number of pending 800 ms timers set by updateOverlay
    isTyping,
    currentRoleIndex,  \* 0-based, as in the source
    typers,            \* in-flight startRoleTyping invocations
    roleText,          \* the .role-text element: class, textContent, cursor
    isAutoZooming,
    initialPinchDistance,  \* 0 stands for null
    zoomCause,         \* history: what last acted on targetScale
    inputCount,        \* history: number of user inputs so far
    \* ---- mobile renderer: touch tracking ----
    touches,           \* the touch points on the screen (event.touches)
    joystickActive,
    activeJoystickTouches,
    activePinkLightTouches,
    lensMovedFrom,     \* history: where the touch that last moved the lens began
    \* ---- renderer: init() ----
    stepsDone,         \* set-up calls of init() that have returned
    initError,         \* the call of init() that threw, "none" if none did
    errorPage,         \* showErrorMessage has replaced document.body
    animationStarted,  \* animate has been called and has requested its next frame
    \* ---- main.js and the optimized renderer side by side ----
    deskM,             \* a DynamicPortfolio3DRenderer (zoom / overlay / role fields)
    optM,              \* an OptimizedPortfolio3DRenderer given the same events
    wheelCount,        \* history: wheel events delivered to the pair
    \* ---- journey-timeline.js ----
    timelineCards,     \* the .timeline-card elements, in document order
    timelineDots,      \* the .timeline-dot elements, in document order
    scrollY,           \* window.scrollY (px)
    scrollProgress,    \* this.scrollProgress
    ticking,           \* an updateTimeline frame is requested
    timelineUpdated    \* history: updateTimeline has run

loaderVars == <<readyState, userAgent, maxTouchPoints, innerWidth, threeDefined,
                detector, threeWait, scripts, domListeners, constructed>>

rendererVars == <<variant, isMobile, targetScale, currentScale, overlayVisible,
                  overlayActive, hasSeenIntro, hintShow, tutorialTimer,
                  startTimers, isTyping, currentRoleIndex, typers, roleText,
                  isAutoZooming, initialPinchDistance, zoomCause, inputCount>>

touchVars == <<touches, joystickActive, activeJoystickTouches,
               activePinkLightTouches, lensMovedFrom>>

initVars == <<stepsDone, initError, errorPage, animationStarted>>

pairVars == <<deskM, optM, wheelCount>>

timelineVars == <<timelineCards, timelineDots, scrollY, scrollProgress, ticking,
                  timelineUpdated>>

vars == <<loaderVars, rendererVars, touchVars, initVars, pairVars, timelineVars>>

Min(a, b) == IF a < b THEN a ELSE b

Max(a, b) == IF a > b THEN a ELSE b

(***************************************************************************)
(*                        device-detector.js                               *)
(***************************************************************************)

\* User agents, one per outcome of the two regular expressions.
UserAgents == {"Windows", "iPhone", "iPad", "Android"}

TouchPointValues == {0, 5}

Widths == {600, 768, 800, 1024, 1200}

NoDetector == [isMobile |-> FALSE, isTablet |-> FALSE, deviceType |-> "none"]

MAIN_JS == "src/js/main.js"

MOBILE_MAIN_JS == "src/js/mobile-main.js"

\* /Android|webOS|iPhone|iPad|iPod|BlackBerry|IEMobile|Opera Mini/i
MobileUA(ua) == ua \in {"Android", "iPhone", "iPad"}

\* /iPad|Android/i
TabletUA(ua) == ua \in {"iPad", "Android"}

detectMobile(ua, mtp, w) ==
    MobileUA(ua) \/ (mtp # 0 /\ mtp > 2) \/ w <= 768

detectTablet(ua, w) ==
    TabletUA(ua) /\ w > 768 /\ w <= 1024

getDeviceType(mobile, tablet) ==
    IF mobile THEN "mobile" ELSE IF tablet THEN "tablet" ELSE "desktop"

NewDetector(ua, mtp, w) ==
    [isMobile   |-> detectMobile(ua, mtp, w),
     isTablet   |-> detectTablet(ua, w),
     deviceType |-> getDeviceType(detectMobile(ua, mtp, w), detectTablet(ua, w))]

\* document.head exists once the parser has reached DOMContentLoaded.
documentHead == TRUE

ScriptForSwapped(deviceType) ==
    IF deviceType = "mobile" THEN MAIN_JS ELSE MOBILE_MAIN_JS

\* the src chosen in the then-callback of loadAppropriateScript
ScriptFor(deviceType) ==
    IF deviceType = "mobile" THEN MOBILE_MAIN_JS ELSE MAIN_JS

FallbackWithHandler == [src |-> MAIN_JS, onerror |-> TRUE, status |-> "pending"]

\* the element script.onerror creates: main.js, no handlers of its own
FallbackScript == [src |-> MAIN_JS, onerror |-> FALSE, status |-> "pending"]

\* the then-callback of loadAppropriateScript: create and append the script
AppendAppScript(d) ==
    IF documentHead
    THEN <<[src |-> ScriptFor(d.deviceType), onerror |-> TRUE, status |-> "pending"]>>
    ELSE <<>>

WaitIgnoresThree(defined) == TRUE

\* the test `typeof THREE !== 'undefined'` of waitForThreeJS
ThreeAvailable(defined) == defined

\* new SomeRenderer() inside try/catch; the constructor throws without THREE.
\* (The 1000 ms retry of initializeMobilePortfolio needs THREE undefined when
\* mobile-main.js runs; DeviceDetector appends the script only after THREE.)
Construct(cls) == IF threeDefined THEN {cls} ELSE {}

\* top-level code of main.js: registers a window DOMContentLoaded listener
\* top-level code of mobile-main.js: initialises at once unless still loading
RunScript(src, rs) ==
    IF src = MAIN_JS
    THEN [listeners |-> {"main"}, renderers |-> {}]
    ELSE IF rs = "loading"
         THEN [listeners |-> {"mobile-main"}, renderers |-> {}]
         ELSE [listeners |-> {}, renderers |-> Construct("MobilePortfolio3DRenderer")]

\* the touch tracking fields as the constructor leaves them, no finger down
NoTouches ==
    /\ touches = <<>>
    /\ joystickActive = FALSE
    /\ activeJoystickTouches = {}
    /\ activePinkLightTouches = {}
    /\ lensMovedFrom = "none"

\* no side-by-side pair is being run
NoPair ==
    /\ deskM = <<>>
    /\ optM = <<>>
    /\ wheelCount = 0

\* the page has no journey timeline
NoTimeline ==
    /\ timelineCards = <<>>
    /\ timelineDots = <<>>
    /\ scrollY = 0
    /\ scrollProgress = 0
    /\ ticking = FALSE
    /\ timelineUpdated = FALSE

\* The loader specification leaves the renderer variables at rest.
RendererIdle ==
    /\ variant = "none"
    /\ isMobile = FALSE
    /\ targetScale = 0
    /\ currentScale = 0
    /\ overlayVisible = FALSE
    /\ overlayActive = FALSE
    /\ hasSeenIntro = FALSE
    /\ hintShow = FALSE
    /\ tutorialTimer = FALSE
    /\ startTimers = 0
    /\ isTyping = FALSE
    /\ currentRoleIndex = 0
    /\ typers = <<>>
    /\ roleText = [class |-> "", text |-> <<>>, cursor |-> FALSE]
    /\ isAutoZooming = FALSE
    /\ initialPinchDistance = 0
    /\ zoomCause = "none"
    /\ inputCount = 0
    /\ NoTouches
    /\ NoTimeline
    /\ stepsDone = 0
    /\ initError = "none"
    /\ errorPage = FALSE
    /\ animationStarted = FALSE
    /\ NoPair

LoaderInit ==
    /\ readyState = "loading"
    /\ userAgent \in UserAgents
    /\ maxTouchPoints \in TouchPointValues
    /\ innerWidth \in Widths
    /\ threeDefined \in BOOLEAN
    /\ detector = NoDetector
    /\ threeWait = "none"
    /\ scripts = <<>>
    /\ domListeners = {"device-detector"}
    /\ constructed = {}
    /\ RendererIdle

\* The three.js <script> finishes loading (static tag or preloadScript).
ThreeLoads ==
    /\ ~threeDefined
    /\ threeDefined' = TRUE
    /\ UNCHANGED <<readyState, userAgent, maxTouchPoints, innerWidth, detector,
                   threeWait, scripts, domListeners, constructed>>
    /\ UNCHANGED <<rendererVars, touchVars, initVars, pairVars, timelineVars>>

\* The browser fires DOMContentLoaded once; every registered listener runs.
DOMContentLoaded ==
    /\ readyState = "loading"
    /\ readyState' = "interactive"
    /\ IF "device-detector" \in domListeners
       THEN LET d == NewDetector(userAgent, maxTouchPoints, innerWidth)
            IN /\ detector' = d
               /\ IF ThreeAvailable(threeDefined)
                  THEN /\ threeWait' = "resolvedAtOnce"
                       /\ scripts' = scripts \o AppendAppScript(d)
                  ELSE /\ threeWait' = "polling"
                       /\ scripts' = scripts
       ELSE UNCHANGED <<detector, threeWait, scripts>>
    /\ constructed' = constructed
            \cup (IF "main" \in domListeners
                  THEN Construct("DynamicPortfolio3DRenderer") ELSE {})
            \cup (IF "mobile-main" \in domListeners
                  THEN Construct("MobilePortfolio3DRenderer") ELSE {})
    /\ UNCHANGED <<userAgent, maxTouchPoints, innerWidth, threeDefined, domListeners>>
    /\ UNCHANGED <<rendererVars, touchVars, initVars, pairVars, timelineVars>>

\* checkThreeJS, run by the 100 ms timer
PollThree ==
    /\ threeWait = "polling"
    /\ IF ThreeAvailable(threeDefined)
       THEN /\ threeWait' = "resolvedByPoll"
            /\ scripts' = scripts \o AppendAppScript(detector)
       ELSE UNCHANGED <<threeWait, scripts>>
    /\ UNCHANGED <<readyState, userAgent, maxTouchPoints, innerWidth, threeDefined,
                   detector, domListeners, constructed>>
    /\ UNCHANGED <<rendererVars, touchVars, initVars, pairVars, timelineVars>>

\* An appended script is fetched and executed; script.onload only logs.
ScriptLoad(i) ==
    /\ scripts[i].status = "pending"
    /\ scripts' = [scripts EXCEPT ![i].status = "loaded"]
    /\ LET r == RunScript(scripts[i].src, readyState)
       IN /\ domListeners' = domListeners \cup r.listeners
          /\ constructed' = constructed \cup r.renderers
    /\ UNCHANGED <<readyState, userAgent, maxTouchPoints, innerWidth, threeDefined,
                   detector, threeWait>>
    /\ UNCHANGED <<rendererVars, touchVars, initVars, pairVars, timelineVars>>

\* An appended script fails to load; script.onerror appends the fallback.
ScriptError(i) ==
    /\ scripts[i].status = "pending"
    /\ LET marked == [scripts EXCEPT ![i].status = "error"]
       IN scripts' = IF scripts[i].onerror /\ documentHead
                     THEN Append(marked, FallbackScript)
                     ELSE marked
    /\ UNCHANGED <<readyState, userAgent, maxTouchPoints, innerWidth, threeDefined,
                   detector, threeWait, domListeners, constructed>>
    /\ UNCHANGED <<rendererVars, touchVars, initVars, pairVars, timelineVars>>

ScriptSettles == \E i \in 1..Len(scripts) : ScriptLoad(i) \/ ScriptError(i)

LoaderNext ==
    \/ ThreeLoads
    \/ DOMContentLoaded
    \/ PollThree
    \/ \E i \in 1..Len(scripts) : ScriptLoad(i)
    \/ \E i \in 1..Len(scripts) : ScriptError(i)

LoaderSpec == LoaderInit /\ [][LoaderNext]_vars

\* The browser does fire DOMContentLoaded, timers do run, and every fetch of
\* an appended script ends in load or error.  three.js itself may never load.
LoaderFairSpec ==
    /\ LoaderSpec
    /\ WF_vars(DOMContentLoaded)
    /\ WF_vars(PollThree)
    /\ WF_vars(ScriptSettles)

(***************************************************************************)
(*                      the renderer state machine                         *)
(***************************************************************************)

\* The fixed-point image of 1.0 (baseScale, and the initial currentScale and
\* targetScale): a scale step is 0.02.
ScaleUnit == 50

\* Characters of each role text that are modelled.
MaxTextLen == 1

\* Roles of the list that are modelled (the list is cycled modulo its length).
MaxRoles == 3

\* User inputs that assign targetScale, per behaviour.
MaxInputs == 3

\* event.deltaY of the wheel events.
WheelDeltas == {-400, 400}

\* Finger distances (px) of two-finger touch events.
PinchDistances == {100, 200}

\* n / d rounded to the nearest integer (d > 0)
RoundDiv(n, d) ==
    IF n >= 0 THEN (2 * n + d) \div (2 * d) ELSE -((2 * (-n) + d) \div (2 * d))

allRoles == <<
    [text |-> <<"D","e","v","e","l","o","p","e","r">>, class |-> "role-developer"],
    [text |-> <<"Q","u","a","n","t"," ","R","e","s","e","a","r","c","h","e","r">>,
     class |-> "role-researcher"],
    [text |-> <<"A","r","t","i","s","t">>, class |-> "role-artist"],
    [text |-> <<"E","d","u","c","a","t","o","r">>, class |-> "role-educator"],
    [text |-> <<"E","n","t","r","e","p","r","e","n","e","u","r">>,
     class |-> "role-entrepreneur"],
    [text |-> <<"W","i","n","e"," ","C","o","n","n","o","i","s","s","e","u","r">>,
     class |-> "role-connoisseur"] >>

\* this.roles, cut to the modelled length
roles == SubSeq(allRoles, 1, Min(Len(allRoles), MaxRoles))

\* this.roles[i] for the 0-based index i of the source
RoleAt(i) == roles[i + 1]

\* currentRole.text, cut to the modelled length
TargetText(i) == SubSeq(RoleAt(i).text, 1, Min(Len(RoleAt(i).text), MaxTextLen))

minScale(v) == (8 * ScaleUnit) \div 10

maxScale(v) ==
    IF v = "mobile" THEN 2 * ScaleUnit
    ELSE IF v = "optimized" THEN (25 * ScaleUnit) \div 10
    ELSE (25 * ScaleUnit) \div 10

zoomThreshold(v) ==
    IF v = "mobile" THEN (14 * ScaleUnit) \div 10
    ELSE IF v = "optimized" THEN (16 * ScaleUnit) \div 10
    ELSE (16 * ScaleUnit) \div 10

\* scaleDamping, in hundredths
scaleDamping(v) ==
    IF v = "mobile" THEN 20 ELSE IF v = "optimized" THEN 15 ELSE 15

Clamp(v, x) == Max(minScale(v), Min(maxScale(v), x))

\* detectMobile of the optimized renderer (no iPad, no maxTouchPoints)
optDetectMobile(ua, w) == ua \in {"Android", "iPhone"} \/ w <= 768

\* this.isMobile as the constructor of each class leaves it
InitIsMobile(v, ua, w) ==
    IF v = "optimized" THEN optDetectMobile(ua, w)
    ELSE v = "mobile"

\* The renderer classes on a desktop browser.
DesktopConfigs == {
    [variant |-> "desktop",   ua |-> "Windows", w |-> 1200],
    [variant |-> "optimized", ua |-> "Windows", w |-> 1200] }

\* The renderer classes that wire the Click Me button, on a phone.
PhoneConfigs == {
    [variant |-> "optimized", ua |-> "iPhone",  w |-> 600],
    [variant |-> "mobile",    ua |-> "iPhone",  w |-> 600] }

RendererConfigs == DesktopConfigs \cup PhoneConfigs

\* the wheel listener is registered (main.js always, optimized unless mobile)
HasWheel == variant = "desktop" \/ (variant = "optimized" /\ ~isMobile)

\* the window touch listeners are registered
HasPinch == variant \in {"desktop", "mobile"} \/ (variant = "optimized" /\ isMobile)

\* setupMobileControls wired the Click Me button
HasClickMe == variant = "mobile" \/ (variant = "optimized" /\ isMobile)

\* startSimpleTutorial / startTutorial set the 5000 ms timer
HasTutorial(v, mobile) == v = "desktop" \/ (v = "optimized" /\ ~mobile)

NoText == [class |-> "", text |-> <<>>, cursor |-> FALSE]

\* the calls of init() before animate(), in order
SetupSteps(v) ==
    IF v = "desktop"
    THEN <<"setupRenderer", "setupScenes", "setupCamera", "setupProfessionalLighting",
           "setupRenderTargets", "loadFont", "setupEventListeners",
           "setupRoleAnimation", "startSimpleTutorial">>
    ELSE IF v = "optimized"
    THEN <<"setupRenderer", "setupScenes", "setupCamera", "setupLighting",
           "setupRenderTargets", "loadFont", "setupEventListeners",
           "setupMobileControls", "setupRoleAnimation", "startTutorial">>
    ELSE <<"setupRenderer", "setupScene", "setupCamera", "setupLighting",
           "setupRenderTargets", "loadFont", "setupEventListeners",
           "setupMobileControls", "setupRoleAnimation">>

\* the set-up call `name` of init() has returned
StepDone(v, n, name) == \E i \in 1..n : i <= Len(SetupSteps(v)) /\ SetupSteps(v)[i] = name

\* The fields the constructor assigns before it calls init(), for a renderer
\* of one of the configs.
FieldsIn(configs) ==
    /\ \E cfg \in configs :
          /\ variant = cfg.variant
          /\ userAgent = cfg.ua
          /\ innerWidth = cfg.w
          /\ isMobile = InitIsMobile(cfg.variant, cfg.ua, cfg.w)
    /\ targetScale = ScaleUnit
    /\ currentScale = ScaleUnit
    /\ overlayVisible = FALSE
    /\ overlayActive = FALSE
    /\ hasSeenIntro = FALSE
    /\ hintShow = FALSE
    /\ startTimers = 0
    /\ isTyping = FALSE
    /\ currentRoleIndex = 0
    /\ typers = <<>>
    /\ roleText = NoText
    /\ isAutoZooming = FALSE
    /\ initialPinchDistance = 0
    /\ zoomCause = "none"
    /\ inputCount = 0
    /\ NoTouches
    /\ NoTimeline
    /\ readyState = "interactive"
    /\ maxTouchPoints = 0
    /\ threeDefined = TRUE
    /\ detector = NoDetector
    /\ threeWait = "none"
    /\ scripts = <<>>
    /\ domListeners = {}
    /\ constructed = {}

\* The state the constructor leaves when init() has run to its end.
InitIn(configs) ==
    /\ FieldsIn(configs)
    /\ tutorialTimer = HasTutorial(variant, isMobile)
    /\ stepsDone = Len(SetupSteps(variant))
    /\ initError = "none"
    /\ errorPage = FALSE
    /\ animationStarted = TRUE
    /\ NoPair

Init == InitIn(RendererConfigs)

RemoveAt(s, k) == SubSeq(s, 1, k - 1) \o SubSeq(s, k + 1, Len(s))

\* startRoleTyping up to its first timer: returns at once if isTyping, else
\* sets the class, empties the text, writes substring(0, 0) and waits.
StartRoleTyping(typing, idx, ts, rt) ==
    IF typing
    THEN [isTyping |-> typing, typers |-> ts, roleText |-> rt]
    ELSE [isTyping |-> TRUE,
          typers   |-> Append(ts, [role |-> idx, next |-> 1, phase |-> "typing"]),
          roleText |-> [class |-> RoleAt(idx).class, text |-> <<>>, cursor |-> TRUE]]

ShouldShowAboveBase(v, scale) == scale >= ScaleUnit

\* shouldShowOverlay = this.currentScale >= this.zoomThreshold
ShouldShowOverlay(v, scale) == scale >= zoomThreshold(v)

\* updateOverlay, given the scale the frame has just computed
UpdateOverlay(newScale) ==
    LET shouldShowOverlay == ShouldShowOverlay(variant, newScale)
    IN IF shouldShowOverlay /\ ~overlayVisible
       THEN /\ overlayActive' = TRUE
            /\ overlayVisible' = TRUE
            /\ hasSeenIntro' = TRUE
            /\ hintShow' = IF variant = "mobile" THEN hintShow ELSE FALSE
            /\ startTimers' = startTimers + 1
            /\ isTyping' = isTyping
       ELSE IF ~shouldShowOverlay /\ overlayVisible
       THEN /\ overlayActive' = FALSE
            /\ overlayVisible' = FALSE
            /\ isTyping' = FALSE
            /\ UNCHANGED <<hasSeenIntro, hintShow, startTimers>>
       ELSE UNCHANGED <<overlayActive, overlayVisible, hasSeenIntro, hintShow,
                        startTimers, isTyping>>

DampedScaleOvershoots(v, cur, tgt) == cur + RoundDiv((tgt - cur) * scaleDamping(v), 10)

\* currentScale += (targetScale - currentScale) * scaleDamping
DampedScale(v, cur, tgt) == cur + RoundDiv((tgt - cur) * scaleDamping(v), 100)

\* animate: one requestAnimationFrame callback
Animate ==
    /\ animationStarted
    /\ currentScale' = DampedScale(variant, currentScale, targetScale)
    /\ UpdateOverlay(currentScale')
    /\ UNCHANGED <<loaderVars, touchVars, pairVars, timelineVars, initVars, variant, isMobile, targetScale, tutorialTimer, currentRoleIndex,
                   typers, roleText, isAutoZooming, initialPinchDistance,
                   zoomCause, inputCount>>

\* targetScale after onWheel: += -deltaY * zoomSpeed (0.002), then clamped
WheelTarget(v, tgt, deltaY) == Clamp(v, tgt + RoundDiv(-deltaY * 2 * ScaleUnit, 1000))

onWheel(deltaY) ==
    /\ HasWheel
    /\ inputCount < MaxInputs
    /\ inputCount' = inputCount + 1
    /\ targetScale' = WheelTarget(variant, targetScale, deltaY)
    /\ zoomCause' = IF targetScale' # targetScale THEN "input" ELSE zoomCause
    /\ UNCHANGED <<loaderVars, touchVars, pairVars, timelineVars, initVars, variant, isMobile, currentScale, overlayVisible, overlayActive,
                   hasSeenIntro, hintShow, tutorialTimer, startTimers, isTyping,
                   currentRoleIndex, typers, roleText, isAutoZooming,
                   initialPinchDistance>>

\* event.touches.length of the touch events
TouchCounts == {1, 2}

\* window touchstart: with exactly two touches remember their distance;
\* mobile-main.js forgets it otherwise
PinchStart(n, dist) ==
    initialPinchDistance' =
        IF n = 2 THEN dist
        ELSE IF variant = "mobile" THEN 0 ELSE initialPinchDistance

onTouchStart(n, dist) ==
    /\ HasPinch
    /\ PinchStart(n, dist)
    /\ UNCHANGED <<loaderVars, touchVars, pairVars, timelineVars, initVars, variant, isMobile, targetScale, currentScale, overlayVisible,
                   overlayActive, hasSeenIntro, hintShow, tutorialTimer, startTimers,
                   isTyping, currentRoleIndex, typers, roleText, isAutoZooming,
                   zoomCause, inputCount>>

\* targetScale after a pinch move: *= currentDistance / initialPinchDistance
PinchTarget(v, tgt, dist, initial) == Clamp(v, RoundDiv(tgt * dist, initial))

\* the pinch part of window touchmove: two touches and a remembered distance
\* rescale the target, anything else leaves it alone
PinchMove(n, dist) ==
    IF n = 2 /\ initialPinchDistance # 0
    THEN /\ inputCount < MaxInputs
         /\ inputCount' = inputCount + 1
         /\ targetScale' = PinchTarget(variant, targetScale, dist, initialPinchDistance)
         /\ initialPinchDistance' = dist
         /\ zoomCause' = IF targetScale' # targetScale THEN "input" ELSE zoomCause
    ELSE UNCHANGED <<inputCount, targetScale, initialPinchDistance, zoomCause>>

\* window touchmove that rescales the target
onTouchMove(n, dist) ==
    /\ HasPinch
    /\ n = 2 /\ initialPinchDistance # 0
    /\ PinchMove(n, dist)
    /\ UNCHANGED <<loaderVars, touchVars, pairVars, timelineVars, initVars, variant, isMobile, currentScale, overlayVisible, overlayActive,
                   hasSeenIntro, hintShow, tutorialTimer, startTimers, isTyping,
                   currentRoleIndex, typers, roleText, isAutoZooming>>

\* window touchend, which only mobile-main.js listens to: forget the distance
\* when fewer than two touches remain
PinchEnd(n) ==
    initialPinchDistance' = IF n < 2 THEN 0 ELSE initialPinchDistance

onTouchEnd(n) ==
    /\ variant = "mobile"
    /\ PinchEnd(n)
    /\ UNCHANGED <<loaderVars, touchVars, pairVars, timelineVars, initVars, variant, isMobile, targetScale, currentScale, overlayVisible,
                   overlayActive, hasSeenIntro, hintShow, tutorialTimer, startTimers,
                   isTyping, currentRoleIndex, typers, roleText, isAutoZooming,
                   zoomCause, inputCount>>

AutoZoomTargetBelow(v) == zoomThreshold(v) - ScaleUnit \div 10

\* targetZoom = this.zoomThreshold + 0.1
AutoZoomTarget(v) == zoomThreshold(v) + ScaleUnit \div 10

\* the early return of handleAutoZoom
AutoZoomIgnored(zooming) == zooming

\* the body of handleAutoZoom
AutoZoom ==
    IF AutoZoomIgnored(isAutoZooming)
    THEN /\ zoomCause' = IF zoomCause = "input" THEN "autoZoomIgnored" ELSE zoomCause
         /\ UNCHANGED <<isAutoZooming, targetScale, inputCount>>
    ELSE /\ inputCount < MaxInputs
         /\ inputCount' = inputCount + 1
         /\ isAutoZooming' = TRUE
         /\ targetScale' = AutoZoomTarget(variant)
         /\ zoomCause' = "autoZoom"

\* handleAutoZoom: Click Me (touchstart or click)
handleAutoZoom ==
    /\ HasClickMe
    /\ AutoZoom
    /\ UNCHANGED <<loaderVars, touchVars, pairVars, timelineVars, initVars, variant, isMobile, currentScale, overlayVisible, overlayActive,
                   hasSeenIntro, hintShow, tutorialTimer, startTimers, isTyping,
                   currentRoleIndex, typers, roleText, initialPinchDistance>>

\* the 1000 ms timer of handleAutoZoom
AutoZoomReset ==
    /\ isAutoZooming
    /\ isAutoZooming' = FALSE
    /\ UNCHANGED <<loaderVars, touchVars, pairVars, timelineVars, initVars, variant, isMobile, targetScale, currentScale, overlayVisible,
                   overlayActive, hasSeenIntro, hintShow, tutorialTimer, startTimers,
                   isTyping, currentRoleIndex, typers, roleText,
                   initialPinchDistance, zoomCause, inputCount>>

HintIgnoresIntro(seen) == TRUE

\* the test of the tutorial timer: !this.hasSeenIntro (timedHint exists)
HintAllowed(seen) == ~seen

\* the 5000 ms timer of startSimpleTutorial / startTutorial
TutorialFires ==
    /\ tutorialTimer
    /\ tutorialTimer' = FALSE
    /\ hintShow' = IF HintAllowed(hasSeenIntro) THEN TRUE ELSE hintShow
    /\ UNCHANGED <<loaderVars, touchVars, pairVars, timelineVars, initVars, variant, isMobile, targetScale, currentScale, overlayVisible,
                   overlayActive, hasSeenIntro, startTimers, isTyping,
                   currentRoleIndex, typers, roleText, isAutoZooming,
                   initialPinchDistance, zoomCause, inputCount>>

\* the 800 ms timer of updateOverlay: startRoleTyping()
StartTimerFires ==
    /\ startTimers > 0
    /\ startTimers' = startTimers - 1
    /\ LET r == StartRoleTyping(isTyping, currentRoleIndex, typers, roleText)
       IN /\ isTyping' = r.isTyping
          /\ typers' = r.typers
          /\ roleText' = r.roleText
    /\ UNCHANGED <<loaderVars, touchVars, pairVars, timelineVars, initVars, variant, isMobile, targetScale, currentScale, overlayVisible,
                   overlayActive, hasSeenIntro, hintShow, tutorialTimer,
                   currentRoleIndex, isAutoZooming, initialPinchDistance,
                   zoomCause, inputCount>>

\* one typingSpeed timer of invocation k: write the next prefix, or, past the
\* end of the text, drop the cursor and set the roleDisplayTime timer
TypeTick(k) ==
    /\ typers[k].phase = "typing"
    /\ LET t == typers[k]
           txt == TargetText(t.role)
       IN IF t.next <= Len(txt)
          THEN /\ roleText' = [roleText EXCEPT !.text = SubSeq(txt, 1, t.next)]
               /\ typers' = [typers EXCEPT ![k].next = t.next + 1]
          ELSE /\ roleText' = [roleText EXCEPT !.cursor = FALSE]
               /\ typers' = [typers EXCEPT ![k].phase = "display"]
    /\ UNCHANGED <<loaderVars, touchVars, pairVars, timelineVars, initVars, variant, isMobile, targetScale, currentScale, overlayVisible,
                   overlayActive, hasSeenIntro, hintShow, tutorialTimer, startTimers,
                   isTyping, currentRoleIndex, isAutoZooming, initialPinchDistance,
                   zoomCause, inputCount>>

\* (this.currentRoleIndex + 1) % this.roles.length
NextRole(i) == (i + 1) % Len(roles)

NeverContinue(visible) == FALSE

\* `if (this.overlayVisible)` of the roleDisplayTime callback
ContinueCycling(visible) == visible

\* the roleDisplayTime timer of invocation k: advance the index, clear
\* isTyping, and type the next role if the overlay is visible
DisplayTick(k) ==
    /\ typers[k].phase = "display"
    /\ currentRoleIndex' = NextRole(currentRoleIndex)
    /\ LET rest == RemoveAt(typers, k)
           r == IF ContinueCycling(overlayVisible)
                THEN StartRoleTyping(FALSE, currentRoleIndex', rest, roleText)
                ELSE [isTyping |-> FALSE, typers |-> rest, roleText |-> roleText]
       IN /\ isTyping' = r.isTyping
          /\ typers' = r.typers
          /\ roleText' = r.roleText
    /\ UNCHANGED <<loaderVars, touchVars, pairVars, timelineVars, initVars, variant, isMobile, targetScale, currentScale, overlayVisible,
                   overlayActive, hasSeenIntro, hintShow, tutorialTimer, startTimers,
                   isAutoZooming, initialPinchDistance, zoomCause,
                   inputCount>>

Next ==
    \/ Animate
    \/ \E deltaY \in WheelDeltas : onWheel(deltaY)
    \/ \E n \in TouchCounts, dist \in PinchDistances : onTouchStart(n, dist)
    \/ \E n \in TouchCounts, dist \in PinchDistances : onTouchMove(n, dist)
    \/ \E n \in {0, 1} : onTouchEnd(n)
    \/ handleAutoZoom
    \/ AutoZoomReset
    \/ TutorialFires
    \/ StartTimerFires
    \/ \E k \in 1..Len(typers) : TypeTick(k)
    \/ \E k \in 1..Len(typers) : DisplayTick(k)

Spec == Init /\ [][Next]_vars

\* requestAnimationFrame keeps calling animate and every timer set fires.
TimersRun ==
    /\ WF_vars(Animate)
    /\ WF_vars(AutoZoomReset)
    /\ WF_vars(StartTimerFires)
    /\ WF_vars(TutorialFires)
    /\ \A k \in 1..MaxInputs :
          WF_vars((k <= Len(typers) /\ (TypeTick(k) \/ DisplayTick(k)))
                 )

\* A desktop used with a mouse: no touch events reach the window.
MouseNext ==
    \/ Animate
    \/ \E deltaY \in WheelDeltas : onWheel(deltaY)
    \/ TutorialFires
    \/ StartTimerFires
    \/ \E k \in 1..Len(typers) : TypeTick(k)
    \/ \E k \in 1..Len(typers) : DisplayTick(k)

MouseFairSpec == InitIn(DesktopConfigs) /\ [][MouseNext]_vars /\ TimersRun

\* A phone: touch events and the Click Me button, no wheel.
PhoneNext ==
    \/ Animate
    \/ \E n \in TouchCounts, dist \in PinchDistances : onTouchStart(n, dist)
    \/ \E n \in TouchCounts, dist \in PinchDistances : onTouchMove(n, dist)
    \/ \E n \in {0, 1} : onTouchEnd(n)
    \/ handleAutoZoom
    \/ AutoZoomReset
    \/ StartTimerFires
    \/ \E k \in 1..Len(typers) : TypeTick(k)
    \/ \E k \in 1..Len(typers) : DisplayTick(k)

PhoneFairSpec == InitIn(PhoneConfigs) /\ [][PhoneNext]_vars /\ TimersRun

(***************************************************************************)
(*              mobile-main.js: joystick and pink-light touches            *)
(*                                                                         *)
(* A touch point is [id, target, at]: its identifier, the element it began *)
(* on (every later event of the touch is dispatched to that element) and   *)
(* the region its position is in now.  touches lists the touch points in   *)
(* the order the fingers came down, the order browsers keep event.touches  *)
(* in.  The joystick container and the Click Me button are taken to be     *)
(* siblings, as isTouchInControlsArea treats them.                         *)
(***************************************************************************)

\* Fingers on the screen at once.
MaxTouches == 2

\* Touch.identifier values; a value is free again once its touch has ended.
TouchIds == 1..MaxTouches

Regions == {"joystick", "button", "scene"}

TouchIdsOf(ts) == {ts[i].id : i \in 1..Len(ts)}

\* the first index of S, 0 if there is none (the `for` loops stop at the
\* first touch they accept)
FirstOf(S) == IF S = {} THEN 0 ELSE CHOOSE i \in S : \A j \in S : i <= j

\* Where a touch can be: on the element it began on or out on the scene; a
\* finger that began on the scene can also slide over either control.
ReachableRegions(t) == IF t.target = "scene" THEN Regions ELSE {t.target, "scene"}

\* isTouchInControlsArea, of the region the position lies in
isTouchInControlsArea(at) == at = "joystick" \/ at = "button"

\* the state no touch handler writes
touchQuietVars == <<loaderVars, initVars, pairVars, timelineVars, variant, isMobile, currentScale, overlayVisible,
                    overlayActive, hasSeenIntro, hintShow, tutorialTimer,
                    startTimers, isTyping, currentRoleIndex, typers, roleText>>

\* the state only the pinch and auto-zoom code writes
zoomVars == <<targetScale, initialPinchDistance, isAutoZooming, zoomCause, inputCount>>

\* handleJoystickStart: event.touches[0] is recorded as the joystick's touch
handleJoystickStart(ts) ==
    /\ joystickActive' = TRUE
    /\ activeJoystickTouches' = activeJoystickTouches \cup {ts[1].id}

\* handleJoystickEnd
handleJoystickEnd ==
    /\ joystickActive' = FALSE
    /\ activeJoystickTouches' = {}

\* the touch the loop of onTouchStart accepts (its index in event.touches)
StartCandidate(ts) ==
    FirstOf({i \in 1..Len(ts) :
                /\ ts[i].id \notin activeJoystickTouches
                /\ ts[i].id \notin activePinkLightTouches
                /\ ~isTouchInControlsArea(ts[i].at)})

\* the touch the first loop of onTouchMove follows
FollowedTouch(ts) ==
    FirstOf({i \in 1..Len(ts) : ts[i].id \in activePinkLightTouches})

\* the touch the second loop of onTouchMove accepts
MoveCandidate(ts) ==
    FirstOf({i \in 1..Len(ts) :
                /\ ts[i].id \notin activeJoystickTouches
                /\ ~isTouchInControlsArea(ts[i].at)})

\* activePinkLightTouches.add(touch.identifier); updatePinkLightPosition(...)
TakePinkLight(ts, i) ==
    IF i = 0
    THEN UNCHANGED <<activePinkLightTouches, lensMovedFrom>>
    ELSE /\ activePinkLightTouches' = activePinkLightTouches \cup {ts[i].id}
         /\ lensMovedFrom' = ts[i].target

\* onTouchStart (pink light) of the mobile renderer
PinkLightTouchStart(ts) == TakePinkLight(ts, StartCandidate(ts))

\* onTouchMove (pink light) of the mobile renderer
PinkLightTouchMove(ts) ==
    IF FollowedTouch(ts) # 0
    THEN /\ lensMovedFrom' = ts[FollowedTouch(ts)].target
         /\ UNCHANGED activePinkLightTouches
    ELSE TakePinkLight(ts, MoveCandidate(ts))

\* onTouchEnd (pink light): forget the touches that ended
PinkLightTouchEnd(t) ==
    /\ activePinkLightTouches' = activePinkLightTouches \ {t.id}
    /\ UNCHANGED lensMovedFrom

\* a finger comes down on the joystick: the container's listener stops the
\* event, the window never sees it
JoystickTouchStart(id) ==
    /\ variant = "mobile"
    /\ Len(touches) < MaxTouches /\ id \notin TouchIdsOf(touches)
    /\ touches' = Append(touches, [id |-> id, target |-> "joystick", at |-> "joystick"])
    /\ handleJoystickStart(touches')
    /\ UNCHANGED <<activePinkLightTouches, lensMovedFrom, zoomVars, touchQuietVars>>

\* a finger comes down on Click Me: handleAutoZoom, and the event is stopped
ButtonTouchStart(id) ==
    /\ variant = "mobile"
    /\ Len(touches) < MaxTouches /\ id \notin TouchIdsOf(touches)
    /\ touches' = Append(touches, [id |-> id, target |-> "button", at |-> "button"])
    /\ AutoZoom
    /\ UNCHANGED <<joystickActive, activeJoystickTouches, activePinkLightTouches,
                   lensMovedFrom, initialPinchDistance, touchQuietVars>>

\* a finger comes down anywhere else: the window touchstart listener
WindowTouchStart(id, dist) ==
    /\ variant = "mobile"
    /\ Len(touches) < MaxTouches /\ id \notin TouchIdsOf(touches)
    /\ touches' = Append(touches, [id |-> id, target |-> "scene", at |-> "scene"])
    /\ PinkLightTouchStart(touches')
    /\ PinchStart(Len(touches'), dist)
    /\ UNCHANGED <<joystickActive, activeJoystickTouches, targetScale,
                   isAutoZooming, zoomCause, inputCount, touchQuietVars>>

\* a finger that began on the joystick moves (to a region `to`):
\* handleJoystickMove steers with event.touches[0]; the event is stopped
JoystickTouchMove(k, to) ==
    /\ variant = "mobile"
    /\ touches[k].target = "joystick"
    /\ to \in ReachableRegions(touches[k]) /\ touches[k].at # to
    /\ touches' = [touches EXCEPT ![k].at = to]
    /\ UNCHANGED <<joystickActive, activeJoystickTouches, activePinkLightTouches,
                   lensMovedFrom, zoomVars, touchQuietVars>>

\* any other finger moves: Click Me has no touchmove listener, so the event
\* reaches the window touchmove listener in both cases
WindowTouchMove(k, to, dist) ==
    /\ variant = "mobile"
    /\ touches[k].target # "joystick"
    /\ to \in ReachableRegions(touches[k])
    /\ touches' = [touches EXCEPT ![k].at = to]
    /\ PinkLightTouchMove(touches')
    /\ PinchMove(Len(touches'), dist)
    /\ UNCHANGED <<joystickActive, activeJoystickTouches, isAutoZooming, touchQuietVars>>

\* a finger that began on the joystick lifts: handleJoystickEnd, event stopped
JoystickTouchEnd(k) ==
    /\ variant = "mobile"
    /\ touches[k].target = "joystick"
    /\ touches' = RemoveAt(touches, k)
    /\ handleJoystickEnd
    /\ UNCHANGED <<activePinkLightTouches, lensMovedFrom, zoomVars, touchQuietVars>>

\* any other finger lifts: the window touchend listener
WindowTouchEnd(k) ==
    /\ variant = "mobile"
    /\ touches[k].target # "joystick"
    /\ touches' = RemoveAt(touches, k)
    /\ PinkLightTouchEnd(touches[k])
    /\ PinchEnd(Len(touches'))
    /\ UNCHANGED <<joystickActive, activeJoystickTouches, targetScale,
                   isAutoZooming, zoomCause, inputCount, touchQuietVars>>

TouchNext ==
    \/ \E id \in TouchIds : JoystickTouchStart(id)
    \/ \E id \in TouchIds : ButtonTouchStart(id)
    \/ \E id \in TouchIds, dist \in PinchDistances : WindowTouchStart(id, dist)
    \/ \E k \in 1..Len(touches), to \in Regions : JoystickTouchMove(k, to)
    \/ \E k \in 1..Len(touches), to \in Regions, dist \in PinchDistances :
          WindowTouchMove(k, to, dist)
    \/ \E k \in 1..Len(touches) : JoystickTouchEnd(k)
    \/ \E k \in 1..Len(touches) : WindowTouchEnd(k)
    \/ handleAutoZoom
    \/ AutoZoomReset

\* The mobile renderer under touch events alone.
TouchInit == InitIn({[variant |-> "mobile", ua |-> "iPhone", w |-> 600]})

TouchSpec == TouchInit /\ [][TouchNext]_vars

(***************************************************************************)
(*                         init() of the renderers                         *)
(***************************************************************************)

CatchOnlyLogs(page) == page

\* showErrorMessage: document.body.innerHTML is replaced by the error page
showErrorMessage(page) == TRUE

\* the next set-up call of init() returns
SetupStepCompletes ==
    /\ initError = "none" /\ ~animationStarted
    /\ stepsDone < Len(SetupSteps(variant))
    /\ stepsDone' = stepsDone + 1
    /\ tutorialTimer' =
          IF SetupSteps(variant)[stepsDone'] \in {"startSimpleTutorial", "startTutorial"}
          THEN HasTutorial(variant, isMobile)
          ELSE tutorialTimer
    /\ UNCHANGED <<loaderVars, touchVars, pairVars, timelineVars, initError, errorPage, animationStarted,
                   variant, isMobile, targetScale, currentScale, overlayVisible,
                   overlayActive, hasSeenIntro, hintShow, startTimers, isTyping,
                   currentRoleIndex, typers, roleText, isAutoZooming,
                   initialPinchDistance, zoomCause, inputCount>>

\* the next set-up call of init() throws: the catch block runs
SetupStepThrows ==
    /\ initError = "none" /\ ~animationStarted
    /\ stepsDone < Len(SetupSteps(variant))
    /\ initError' = SetupSteps(variant)[stepsDone + 1]
    /\ errorPage' = showErrorMessage(errorPage)
    /\ UNCHANGED <<loaderVars, touchVars, pairVars, timelineVars, stepsDone, animationStarted, rendererVars>>

\* init() calls animate(): the next frame is requested, then the frame is
\* drawn; a throw while drawing lands in the catch block of init()
FirstAnimate(throws) ==
    /\ initError = "none" /\ ~animationStarted
    /\ stepsDone = Len(SetupSteps(variant))
    /\ animationStarted' = TRUE
    /\ initError' = IF throws THEN "animate" ELSE initError
    /\ errorPage' = IF throws THEN showErrorMessage(errorPage) ELSE errorPage
    /\ UNCHANGED <<loaderVars, touchVars, pairVars, timelineVars, stepsDone, rendererVars>>

\* a wheel event once setupEventListeners has registered the listener
WheelEvent(deltaY) ==
    /\ StepDone(variant, stepsDone, "setupEventListeners")
    /\ onWheel(deltaY)

\* Click Me once setupMobileControls has wired the button
ClickMe ==
    /\ StepDone(variant, stepsDone, "setupMobileControls")
    /\ handleAutoZoom

InitNext ==
    \/ SetupStepCompletes
    \/ SetupStepThrows
    \/ \E throws \in BOOLEAN : FirstAnimate(throws)
    \/ Animate
    \/ \E deltaY \in WheelDeltas : WheelEvent(deltaY)
    \/ ClickMe
    \/ AutoZoomReset
    \/ TutorialFires
    \/ StartTimerFires
    \/ \E k \in 1..Len(typers) : TypeTick(k)
    \/ \E k \in 1..Len(typers) : DisplayTick(k)

\* the constructor is about to call init()
Constructing(configs) ==
    /\ FieldsIn(configs)
    /\ tutorialTimer = FALSE
    /\ stepsDone = 0
    /\ initError = "none"
    /\ errorPage = FALSE
    /\ animationStarted = FALSE

InitInit == Constructing(RendererConfigs) /\ NoPair

\* A renderer from the moment its constructor calls init().
InitSpec == InitInit /\ [][InitNext]_vars

(***************************************************************************)
(*        main.js and the optimized renderer, given the same events        *)
(*                                                                         *)
(* Each renderer is a record of its zoom / overlay / role fields and each  *)
(* handler a function on that record, written from the renderer's own      *)
(* file.  main.js types with a for loop that awaits a timer per character  *)
(* (the pending invocation remembers the loop variable i); the optimized   *)
(* renderer re-arms typeChar with setTimeout (it remembers charIndex).     *)
(***************************************************************************)

\* the fields both constructors assign (main.js 37-63, optimized 39-82)
NewMachine ==
    [targetScale |-> ScaleUnit, currentScale |-> ScaleUnit, overlayVisible |-> FALSE,
     isTyping |-> FALSE, currentRoleIndex |-> 0, roleText |-> NoText,
     startTimers |-> 0, typers |-> <<>>]

\* ---- main.js ----

DesktopOnWheel(m, deltaY) ==
    [m EXCEPT !.targetScale = WheelTarget("desktop", m.targetScale, deltaY)]

DesktopUpdateOverlay(m) ==
    LET shouldShowOverlay == ShouldShowOverlay("desktop", m.currentScale)
    IN IF shouldShowOverlay /\ ~m.overlayVisible
       THEN [m EXCEPT !.overlayVisible = TRUE, !.startTimers = @ + 1]
       ELSE IF ~shouldShowOverlay /\ m.overlayVisible
       THEN [m EXCEPT !.overlayVisible = FALSE, !.isTyping = FALSE]
       ELSE m

DesktopAnimate(m) ==
    DesktopUpdateOverlay(
        [m EXCEPT !.currentScale = DampedScale("desktop", m.currentScale, m.targetScale)])

\* startRoleTyping up to its first await: the loop has run with i = 0
DesktopStartRoleTyping(m) ==
    IF m.isTyping THEN m
    ELSE [m EXCEPT
            !.isTyping = TRUE,
            !.roleText = [class  |-> RoleAt(m.currentRoleIndex).class,
                          text   |-> SubSeq(TargetText(m.currentRoleIndex), 1, 0),
                          cursor |-> TRUE],
            !.typers = Append(@, [role |-> m.currentRoleIndex, i |-> 0,
                                  phase |-> "await"])]

\* the 800 ms timer of updateOverlay
DesktopStartTimer(m) ==
    IF m.startTimers = 0 THEN m
    ELSE DesktopStartRoleTyping([m EXCEPT !.startTimers = @ - 1])

\* the timer invocation k waits on fires: the loop goes round once more, or
\* ends and sets the roleDisplayTime timer; that timer advances the role
DesktopTimer(m, k) ==
    IF k > Len(m.typers) THEN m
    ELSE LET t == m.typers[k]
             txt == TargetText(t.role)
         IN IF t.phase = "await"
            THEN IF t.i + 1 <= Len(txt)
                 THEN [m EXCEPT !.roleText.text = SubSeq(txt, 1, t.i + 1),
                                !.typers[k].i = t.i + 1]
                 ELSE [m EXCEPT !.roleText.cursor = FALSE,
                                !.typers[k].phase = "display"]
            ELSE LET after == [m EXCEPT
                                 !.currentRoleIndex = (m.currentRoleIndex + 1) % Len(roles),
                                 !.isTyping = FALSE,
                                 !.typers = RemoveAt(m.typers, k)]
                 IN IF after.overlayVisible THEN DesktopStartRoleTyping(after) ELSE after

\* ---- the optimized renderer ----

OptOnWheel(m, deltaY) ==
    [m EXCEPT !.targetScale = WheelTarget("optimized", m.targetScale, deltaY)]

OptUpdateOverlay(m) ==
    LET shouldShowOverlay == ShouldShowOverlay("optimized", m.currentScale)
    IN IF shouldShowOverlay /\ ~m.overlayVisible
       THEN [m EXCEPT !.overlayVisible = TRUE, !.startTimers = @ + 1]
       ELSE IF ~shouldShowOverlay /\ m.overlayVisible
       THEN [m EXCEPT !.overlayVisible = FALSE, !.isTyping = FALSE]
       ELSE m

OptAnimate(m) ==
    OptUpdateOverlay(
        [m EXCEPT !.currentScale = DampedScale("optimized", m.currentScale, m.targetScale)])

OptWritesShort(charIndex, text) == charIndex < Len(text)

\* `if (charIndex <= targetText.length)` of typeChar
OptWrites(charIndex, text) == charIndex <= Len(text)

\* typeChar: write the prefix and re-arm, or drop the cursor and set the
\* roleDisplayTime timer
OptTypeChar(m, k) ==
    LET t == m.typers[k]
        txt == TargetText(t.role)
    IN IF OptWrites(t.charIndex, txt)
       THEN [m EXCEPT !.roleText.text = SubSeq(txt, 1, t.charIndex),
                      !.typers[k].charIndex = t.charIndex + 1]
       ELSE [m EXCEPT !.roleText.cursor = FALSE,
                      !.typers[k].phase = "display"]

\* startRoleTyping: set the class, empty the text, call typeChar once
OptStartRoleTyping(m) ==
    IF m.isTyping THEN m
    ELSE LET begun ==
               [m EXCEPT
                  !.isTyping = TRUE,
                  !.roleText = [class  |-> RoleAt(m.currentRoleIndex).class,
                                text   |-> <<>>,
                                cursor |-> TRUE],
                  !.typers = Append(@, [role |-> m.currentRoleIndex, charIndex |-> 0,
                                        phase |-> "typeChar"])]
         IN OptTypeChar(begun, Len(begun.typers))

OptStartTimer(m) ==
    IF m.startTimers = 0 THEN m
    ELSE OptStartRoleTyping([m EXCEPT !.startTimers = @ - 1])

\* the timer of invocation k fires: typeChar, or the roleDisplayTime callback
OptTimer(m, k) ==
    IF k > Len(m.typers) THEN m
    ELSE IF m.typers[k].phase = "typeChar"
         THEN OptTypeChar(m, k)
         ELSE LET after == [m EXCEPT
                              !.currentRoleIndex = (m.currentRoleIndex + 1) % Len(roles),
                              !.isTyping = FALSE,
                              !.typers = RemoveAt(m.typers, k)]
              IN IF after.overlayVisible THEN OptStartRoleTyping(after) ELSE after

\* ---- the same event delivered to both ----

pairQuietVars == <<loaderVars, rendererVars, touchVars, initVars, timelineVars>>

PairWheel(deltaY) ==
    /\ wheelCount < MaxInputs
    /\ wheelCount' = wheelCount + 1
    /\ deskM' = DesktopOnWheel(deskM, deltaY)
    /\ optM' = OptOnWheel(optM, deltaY)
    /\ UNCHANGED pairQuietVars

PairFrame ==
    /\ deskM' = DesktopAnimate(deskM)
    /\ optM' = OptAnimate(optM)
    /\ UNCHANGED <<wheelCount, pairQuietVars>>

PairStartTimer ==
    /\ deskM.startTimers > 0 \/ optM.startTimers > 0
    /\ deskM' = DesktopStartTimer(deskM)
    /\ optM' = OptStartTimer(optM)
    /\ UNCHANGED <<wheelCount, pairQuietVars>>

PairTimer(k) ==
    /\ k <= Len(deskM.typers) \/ k <= Len(optM.typers)
    /\ deskM' = DesktopTimer(deskM, k)
    /\ optM' = OptTimer(optM, k)
    /\ UNCHANGED <<wheelCount, pairQuietVars>>

PairNext ==
    \/ \E deltaY \in WheelDeltas : PairWheel(deltaY)
    \/ PairFrame
    \/ PairStartTimer
    \/ \E k \in 1..Max(Len(deskM.typers), Len(optM.typers)) : PairTimer(k)

\* Both renderers on a desktop browser, from construction.
PairInit ==
    /\ Constructing({[variant |-> "desktop", ua |-> "Windows", w |-> 1200]})
    /\ deskM = NewMachine
    /\ optM = NewMachine
    /\ wheelCount = 0

PairSpec == PairInit /\ [][PairNext]_vars

(***************************************************************************)
(*                          journey-timeline.js                            *)
(*                                                                         *)
(* Progress values are doubles in the source; here they are fixed point,   *)
(* ProgressUnit steps per 1.0.  A length in vh is kept in steps of         *)
(* 1 / VhUnit vh.                                                          *)
(***************************************************************************)

\* The fixed-point image of scrollProgress 1.0.
ProgressUnit == 1000

\* Steps per vh of a style.top value.
VhUnit == 10

\* documentHeight - windowHeight (px): how far the page scrolls.
ScrollRange == 1000

\* The values window.scrollY takes.
ScrollPositions == {0, 100, 200, 300, 400, 500, 600, 700, 800, 900, 1000}

\* this.timelineData: side and position; the fourth position is the string
\* '0.4' in the source
timelineData == <<
    [side |-> "left",  position |-> [string |-> FALSE, value |-> ProgressUnit \div 10]],
    [side |-> "right", position |-> [string |-> FALSE, value |-> (2 * ProgressUnit) \div 10]],
    [side |-> "left",  position |-> [string |-> FALSE, value |-> (3 * ProgressUnit) \div 10]],
    [side |-> "right", position |-> [string |-> TRUE,  value |-> (4 * ProgressUnit) \div 10]],
    [side |-> "left",  position |-> [string |-> FALSE, value |-> (5 * ProgressUnit) \div 10]],
    [side |-> "right", position |-> [string |-> FALSE, value |-> (6 * ProgressUnit) \div 10]] >>

\* the number a position multiplies as: `*` converts a numeric string
ToNumber(position) == position.value

\* `${data.position * 100}vh`
TopOf(position) ==
    [value |-> RoundDiv(ToNumber(position) * 100 * VhUnit, ProgressUnit), unit |-> "vh"]

\* parseFloat(card.style.top): the leading number, the unit dropped
parseFloat(top) == top.value

\* cardProgress = cardTop / 100
CardProgress(top) == RoundDiv(parseFloat(top) * ProgressUnit, 100 * VhUnit)

ShowsCardStrictly(progress, cardProgress) == progress > cardProgress - ProgressUnit \div 10

\* this.scrollProgress >= cardProgress - 0.1
ShowsCard(progress, cardProgress) == progress >= cardProgress - ProgressUnit \div 10

\* one iteration of createTimelineCards: createTimelineCard appends the dot,
\* createTimelineCards appends the card it returns
CreateTimelineCard ==
    /\ Len(timelineCards) < Len(timelineData)
    /\ LET data == timelineData[Len(timelineCards) + 1]
       IN /\ timelineDots' = Append(timelineDots,
                                    [top |-> TopOf(data.position), active |-> FALSE])
          /\ timelineCards' = Append(timelineCards,
                                     [side |-> data.side, top |-> TopOf(data.position),
                                      visible |-> FALSE])
    /\ UNCHANGED <<scrollY, scrollProgress, ticking, timelineUpdated>>
    /\ UNCHANGED <<loaderVars, rendererVars, touchVars, initVars, pairVars>>

\* the page scrolls; requestTick asks for a frame unless one is pending.
\* (setupScrollListener runs right after createTimelineCards.)
Scroll(y) ==
    /\ Len(timelineCards) = Len(timelineData)
    /\ y # scrollY
    /\ scrollY' = y
    /\ ticking' = TRUE
    /\ UNCHANGED <<timelineCards, timelineDots, scrollProgress, timelineUpdated>>
    /\ UNCHANGED <<loaderVars, rendererVars, touchVars, initVars, pairVars>>

\* updateCardsVisibility, for the progress the frame has just computed
updateCardsVisibility(progress) ==
    /\ timelineCards' =
          [i \in 1..Len(timelineCards) |->
              [timelineCards[i] EXCEPT
                  !.visible = ShowsCard(progress, CardProgress(timelineCards[i].top))]]
    /\ timelineDots' =
          [i \in 1..Len(timelineDots) |->
              IF i <= Len(timelineCards)
              THEN [timelineDots[i] EXCEPT
                      !.active = ShowsCard(progress, CardProgress(timelineCards[i].top))]
              ELSE timelineDots[i]]

\* updateTimeline: the requested animation frame
UpdateTimeline ==
    /\ ticking
    /\ scrollProgress' = RoundDiv(scrollY * ProgressUnit, ScrollRange)
    /\ updateCardsVisibility(scrollProgress')
    /\ ticking' = FALSE
    /\ timelineUpdated' = TRUE
    /\ UNCHANGED scrollY
    /\ UNCHANGED <<loaderVars, rendererVars, touchVars, initVars, pairVars>>

TimelineNext ==
    \/ CreateTimelineCard
    \/ \E y \in ScrollPositions : Scroll(y)
    \/ UpdateTimeline

\* The journey page from the JourneyTimeline constructor on.
TimelineInit ==
    /\ LoaderInit
    /\ userAgent = "Windows" /\ maxTouchPoints = 0 /\ innerWidth = 1200
    /\ threeDefined = TRUE

TimelineSpec == TimelineInit /\ [][TimelineNext]_vars

(***************************************************************************)
(*                              claims                                     *)
(***************************************************************************)

\* C1: the first application script appended is mobile-main.js if and only
\* if deviceType is 'mobile'; for every other deviceType it is main.js.
C1_FirstScriptMatchesDevice ==
    Len(scripts) >= 1 =>
        /\ (scripts[1].src = MOBILE_MAIN_JS) <=> (detector.deviceType = "mobile")
        /\ detector.deviceType # "mobile" => scripts[1].src = MAIN_JS

C1_Witness ==
    /\ threeWait = "resolvedByPoll"
    /\ Len(scripts) >= 1
    /\ detector.deviceType = "mobile"
    /\ scripts[1].src = MOBILE_MAIN_JS

\* C2 as stated: once the desktop variant is selected and the appended
\* main.js has executed, a DynamicPortfolio3DRenderer is eventually
\* constructed.
C2_DesktopRendererConstructed ==
    (/\ detector.deviceType \in {"desktop", "tablet"}
     /\ \E i \in 1..Len(scripts) :
           scripts[i].src = MAIN_JS /\ scripts[i].status = "loaded")
        ~> ("DynamicPortfolio3DRenderer" \in constructed)

\* C3: no application script is appended while THREE is undefined, and once
\* THREE is defined the wait resolves and an application script is appended.
C3_ScriptOnlyAfterThree ==
    /\ [](scripts # <<>> => threeDefined)
    /\ (detector # NoDetector /\ threeDefined)
          ~> (threeWait \in {"resolvedAtOnce", "resolvedByPoll"} /\ scripts # <<>>)

C3_Witness == threeWait = "resolvedByPoll" /\ scripts # <<>> /\ threeDefined

\* C4: a load error of the selected script appends main.js as a fallback
\* without an error handler, and at most two application scripts are ever
\* appended.
C4_AtMostOneFallback ==
    /\ Len(scripts) <= 2
    /\ \A i \in 1..Len(scripts) :
          /\ scripts[i].onerror <=> i = 1
          /\ (i = 1 /\ scripts[i].status = "error") =>
                (Len(scripts) = 2 /\ scripts[2].src = MAIN_JS)
          /\ i = 2 => scripts[1].status = "error"

C4_Witness ==
    /\ Len(scripts) = 2
    /\ scripts[1].src = MOBILE_MAIN_JS
    /\ scripts[1].status = "error"
    /\ scripts[2].status = "error"

\* a startRoleTyping call that gets past its isTyping guard
StartsTyping ==
    \/ StartTimerFires /\ ~isTyping
    \/ \E k \in 1..Len(typers) : DisplayTick(k) /\ overlayVisible

\* a typing timer that assigns textContent
WritesChar ==
    \E k \in 1..Len(typers) :
        TypeTick(k) /\ typers[k].next <= Len(TargetText(typers[k].role))

\* the index of the role whose class the .role-text element carries
TypedRole == CHOOSE i \in 0..(Len(roles) - 1) : RoleAt(i).class = roleText.class

\* role i is being typed by some invocation
RoleBeingTyped(i) ==
    \E k \in 1..Len(typers) : typers[k].role = i /\ typers[k].phase = "typing"

\* C5 as stated: currentRoleIndex stays within the list, every completed
\* display advances it by one (wrapping), and the role typed next is always
\* the successor of the role typed before it.
C5_RolesTypedInListOrder ==
    /\ [](currentRoleIndex \in 0..(Len(roles) - 1))
    /\ [][(\E k \in 1..Len(typers) : DisplayTick(k))
              => currentRoleIndex' = (currentRoleIndex + 1) % Len(roles)]_vars
    /\ [][(StartsTyping /\ roleText.class # "")
              => currentRoleIndex' = (TypedRole + 1) % Len(roles)]_vars

\* C6: if the overlay becomes visible and stays visible, every role of the
\* list is typed again and again, forever.
C6_CyclingContinuesForever ==
    <>[]overlayVisible => \A i \in 0..(Len(roles) - 1) : []<>RoleBeingTyped(i)

C6_Witness ==
    /\ overlayVisible
    /\ inputCount = 1
    /\ currentRoleIndex = Len(roles) - 1
    /\ RoleBeingTyped(Len(roles) - 1)

\* C7 as stated: while the overlay is hidden no character is written to the
\* role text element and no typing sequence begins.
C7_HiddenOverlayStopsTyping ==
    [][~overlayVisible => ~(WritesChar \/ StartsTyping)]_vars

\* C8: overlayVisible holds exactly when currentScale >= zoomThreshold, and
\* the overlay carries 'active' exactly when overlayVisible holds.
C8_OverlayFollowsScale ==
    /\ overlayVisible <=> currentScale >= zoomThreshold(variant)
    /\ overlayActive <=> overlayVisible

C8_Witness ==
    /\ hasSeenIntro
    /\ ~overlayVisible
    /\ currentScale < zoomThreshold(variant)
    /\ targetScale < currentScale

\* C9 as amended: once a handleAutoZoom call has assigned targetScale, the
\* overlay becomes visible unless a wheel or pinch input changes targetScale.
C9_AutoZoomRevealsOverlay ==
    (zoomCause = "autoZoom") ~> (overlayVisible \/ zoomCause # "autoZoom")

\* C9 as stated: after any handleAutoZoom call, with no later change of
\* targetScale by wheel or pinch, the overlay becomes visible.
C9_AnyAutoZoomCallRevealsOverlay ==
    (zoomCause \in {"autoZoom", "autoZoomIgnored"})
        ~> (overlayVisible \/ zoomCause \notin {"autoZoom", "autoZoomIgnored"})

C9_Witness ==
    /\ zoomCause = "autoZoom"
    /\ ~isAutoZooming
    /\ overlayVisible
    /\ currentScale >= zoomThreshold(variant)

\* C10: the hint gets 'show' only from the one-shot tutorial timer and only
\* with hasSeenIntro false; hasSeenIntro never returns to false; with
\* hasSeenIntro true the hint never carries 'show'; the optimized renderer on
\* mobile never shows it.
C10_HintOnlyBeforeIntro ==
    /\ [](hasSeenIntro => ~hintShow)
    /\ []((variant = "optimized" /\ isMobile) => ~hintShow)
    /\ [][hasSeenIntro => hasSeenIntro']_vars
    /\ [][~tutorialTimer => ~tutorialTimer']_vars
    /\ [][(~hintShow /\ hintShow') => (TutorialFires /\ ~hasSeenIntro)]_vars

C10_Witness ==
    /\ HasTutorial(variant, isMobile)
    /\ ~tutorialTimer
    /\ hasSeenIntro
    /\ ~hintShow

\* C11 as stated: no touch identifier is in both activeJoystickTouches and
\* activePinkLightTouches.
C11_JoystickAndPinkLightDisjoint ==
    activeJoystickTouches \cap activePinkLightTouches = {}

\* C12 as stated: a touch that began on the joystick container or on Click Me
\* is not in activePinkLightTouches and has not moved the lens.
C12_ControlTouchesNeverSteerLens ==
    /\ \A i \in 1..Len(touches) :
          isTouchInControlsArea(touches[i].target)
              => touches[i].id \notin activePinkLightTouches
    /\ ~isTouchInControlsArea(lensMovedFrom)


\* a set-up call of init() (not animate) has thrown
SetupFailed ==
    \E i \in 1..Len(SetupSteps(variant)) : initError = SetupSteps(variant)[i]

\* C13: if a set-up step of init throws, the error page is shown and the
\* animation loop is never started: no frame ever runs, currentScale stays
\* where the constructor put it; animate is reached only with every set-up
\* step done.
C13_FailedInitNeverAnimates ==
    /\ SetupFailed => (errorPage /\ ~animationStarted)
    /\ SetupFailed => (currentScale = ScaleUnit /\ ~overlayVisible)
    /\ animationStarted => stepsDone = Len(SetupSteps(variant))

C13_Witness ==
    /\ initError = "setupRoleAnimation"
    /\ errorPage
    /\ targetScale > zoomThreshold(variant)
    /\ currentScale = ScaleUnit


\* C14 as stated: an environment that detectTablet accepts (iPad or Android
\* user agent, 768 < width <= 1024) makes getDeviceType return 'tablet'.
C14_TabletEnvironmentIsTablet ==
    (detector # NoDetector /\ detectTablet(userAgent, innerWidth))
        => detector.deviceType = "tablet"


\* the fields C15 compares
Observed(m) ==
    [targetScale |-> m.targetScale, currentScale |-> m.currentScale,
     overlayVisible |-> m.overlayVisible, isTyping |-> m.isTyping,
     currentRoleIndex |-> m.currentRoleIndex, text |-> m.roleText.text,
     class |-> m.roleText.class]

\* C15: given the same wheel events, animation frames and timer firings, the
\* desktop and the optimized renderer hold the same targetScale, currentScale,
\* overlayVisible, isTyping, currentRoleIndex and typed role text.
C15_DesktopAndOptimizedAgree == Observed(deskM) = Observed(optM)

C15_Witness ==
    /\ deskM.currentRoleIndex = 1
    /\ deskM.overlayVisible
    /\ deskM.roleText.text = TargetText(1)
    /\ Len(optM.typers) = 1
    /\ ~optM.roleText.cursor


\* |a - b|
Dist(a, b) == IF a >= b THEN a - b ELSE b - a

\* the damped step of this frame is large enough to change currentScale
StepResolved == 2 * Dist(targetScale, currentScale) * scaleDamping(variant) >= 100

\* |targetScale - currentScale| after the next frame, targetScale held fixed
NextDist == Dist(targetScale, DampedScale(variant, currentScale, targetScale))

\* C16 as amended: every frame leaves currentScale between its previous
\* value and targetScale, currentScale stays within [minScale, maxScale], the
\* distance to targetScale never grows, and it shrinks in every frame whose
\* damped step is not rounded away.
C16_DampingNeverOvershoots ==
    /\ [](minScale(variant) <= currentScale /\ currentScale <= maxScale(variant))
    /\ [][Animate =>
            /\ Min(currentScale, targetScale) <= currentScale'
            /\ currentScale' <= Max(currentScale, targetScale)
            /\ Dist(targetScale, currentScale') <= Dist(targetScale, currentScale)]_vars
    /\ [](StepResolved => NextDist < Dist(targetScale, currentScale))

\* C16 as stated: whenever currentScale is away from targetScale, the next
\* frame shrinks the distance |targetScale - currentScale|.
C16_DistanceShrinksEveryFrame ==
    currentScale # targetScale => NextDist < Dist(targetScale, currentScale)

C16_Witness ==
    /\ inputCount > 0
    /\ currentScale > zoomThreshold(variant)
    /\ currentScale < targetScale
    /\ DampedScale(variant, currentScale, targetScale) = currentScale


\* C17: after a scroll update a card carries 'visible', and its dot
\* 'active', exactly when scrollProgress >= the card's position - 0.1; there
\* are as many dots as cards; the visible cards form a prefix of the timeline.
C17_CardsFollowScroll ==
    /\ Len(timelineDots) = Len(timelineCards)
    /\ timelineUpdated =>
          \A i \in 1..Len(timelineCards) :
              /\ timelineCards[i].visible <=>
                    scrollProgress >= ToNumber(timelineData[i].position) - ProgressUnit \div 10
              /\ timelineDots[i].active <=> timelineCards[i].visible
    /\ \A i, j \in 1..Len(timelineCards) :
          (i < j /\ timelineCards[j].visible) => timelineCards[i].visible

C17_Witness ==
    /\ timelineUpdated
    /\ ~ticking
    /\ timelineCards[3].visible /\ timelineDots[3].active
    /\ ~timelineCards[4].visible /\ ~timelineDots[4].active
    /\ scrollProgress = ToNumber(timelineData[3].position) - ProgressUnit \div 10


=============================================================================
